---- MODULE Spec2Model ----
(***************************************************************************)
(* Model of the cloud-sheet expense tracker (src/app.py).                  *)
(*                                                                         *)
(* A worksheet is a grid: a sequence of rows, a row a sequence of cells,   *)
(* a cell a text.  A text is a sequence of one-character strings, so that  *)
(* str.strip(), str(date) and strftime("%B %Y") are computed character by  *)
(* character.  A DataFrame is [columns, values]; a DataFrame cell is       *)
(* tagged: text read from the sheet (S) or a number typed into a           *)
(* number_input (N).  The sheet stores what it shows: get_all_values       *)
(* returns text only, a number comes back as its decimal text.             *)
(*                                                                         *)
(* Streamlit runs the whole script once per user event; in a run only the  *)
(* widget that triggered it reads True (st.button, st.form_submit_button). *)
(***************************************************************************)
EXTENDS Integers, Sequences, FiniteSets, TLC

VARIABLES
    sheets,   \* the spreadsheet: worksheet name -> [exists, rows]
    page,     \* the tab the browser shows ("none" before the first run)
    ev,       \* the trigger of the last script run (kind, row index, inputs)
    pc,       \* per concurrent session: position inside its script run
    op,       \* per concurrent session: the trigger of its run
    snap,     \* per concurrent session: the records it read with ws_to_df
    df,       \* per concurrent session: the DataFrame it is about to write
    runs,     \* per concurrent session: runs started
    mixed     \* per concurrent session: another session wrote during its df_to_ws

vars == <<sheets, page, ev, pc, op, snap, df, runs, mixed>>

(***************************************************************************)
(* Bounds of the model.                                                    *)
(***************************************************************************)
MaxRecords == 3   \* records held by the three record sheets together
MaxRuns == 3      \* script runs the concurrent sessions may start, together

(***************************************************************************)
(* Text.                                                                   *)
(***************************************************************************)
Sp == " "

RECURSIVE lstrip(_)
\* str.strip(), left half
lstrip(s) == IF s # <<>> /\ Head(s) = Sp THEN lstrip(Tail(s)) ELSE s

RECURSIVE rstrip(_)
\* str.strip(), right half
rstrip(s) == IF s # <<>> /\ s[Len(s)] = Sp THEN rstrip(SubSeq(s, 1, Len(s) - 1)) ELSE s

\* bug: the text is tested as typed, not trimmed
strip_none(s) == s

\* new_cat.strip(), med_name.strip()
strip(s) == rstrip(lstrip(s))

Digit(n) == <<"0", "1", "2", "3", "4", "5", "6", "7", "8", "9">>[n + 1]

RECURSIVE Dec(_)
\* the decimal text the sheet shows for a whole number
Dec(n) == IF n < 10 THEN <<Digit(n)>> ELSE Dec(n \div 10) \o <<Digit(n % 10)>>

RECURSIVE ZeroPad(_, _)
ZeroPad(s, w) == IF Len(s) >= w THEN s ELSE ZeroPad(<<"0">> \o s, w)

\* str(exp_date): ISO form YYYY-MM-DD
DateStr(dt) ==
    ZeroPad(Dec(dt.year), 4) \o <<"-">> \o ZeroPad(Dec(dt.month), 2) \o <<"-">> \o ZeroPad(Dec(dt.day), 2)

MonthNames ==
    << <<"J","a","n","u","a","r","y">>, <<"F","e","b","r","u","a","r","y">>,
       <<"M","a","r","c","h">>, <<"A","p","r","i","l">>, <<"M","a","y">>,
       <<"J","u","n","e">>, <<"J","u","l","y">>, <<"A","u","g","u","s","t">>,
       <<"S","e","p","t","e","m","b","e","r">>, <<"O","c","t","o","b","e","r">>,
       <<"N","o","v","e","m","b","e","r">>, <<"D","e","c","e","m","b","e","r">> >>

\* exp_date.strftime("%B %Y")
MonthYear(dt) == MonthNames[dt.month] \o <<Sp>> \o ZeroPad(Dec(dt.year), 4)

(***************************************************************************)
(* Worksheets and their headers.                                           *)
(***************************************************************************)
T_Date == <<"D","a","t","e">>
T_Amount == <<"A","m","o","u","n","t">>
T_Category == <<"C","a","t","e","g","o","r","y">>
T_Notes == <<"N","o","t","e","s">>
T_Month == <<"M","o","n","t","h">>
T_Medicine == <<"M","e","d","i","c","i","n","e">>
T_Quantity == <<"Q","u","a","n","t","i","t","y">>
T_Cost == <<"C","o","s","t">>
T_Type == <<"T","y","p","e">>
T_Frequency == <<"F","r","e","q","u","e","n","c","y">>

RecordSheets == {"Expenses", "Medicines", "Investments"}
CategorySheets == {"ExpenseCategories", "InvestmentCategories"}
SheetNames == RecordSheets \cup CategorySheets

Headers(name) ==
    CASE name = "Expenses" -> <<T_Date, T_Amount, T_Category, T_Notes, T_Month>>
      [] name = "Medicines" -> <<T_Date, T_Medicine, T_Quantity, T_Cost, T_Notes>>
      [] name = "Investments" -> <<T_Date, T_Type, T_Amount, T_Frequency, T_Notes>>
      [] name = "ExpenseCategories" -> <<T_Category>>
      [] name = "InvestmentCategories" -> <<T_Type>>

ExpenseDefault ==
    << <<"F","o","o","d">>, <<"T","r","a","n","s","p","o","r","t">>,
       <<"S","h","o","p","p","i","n","g">>, <<"D","o","n","a","t","i","o","n">>,
       <<"B","i","l","l","s">>, <<"O","t","h","e","r">> >>

InvestmentDefault ==
    << <<"S","a","l","a","r","y">>, <<"S","I","P">>, <<"F","D">>,
       <<"S","t","o","c","k","s">>, <<"C","h","i","t"," ","F","u","n","d">>,
       <<"O","t","h","e","r">> >>

Frequencies ==
    << <<"O","n","e","-","t","i","m","e">>, <<"M","o","n","t","h","l","y">>,
       <<"Q","u","a","r","t","e","r","l","y">> >>

NoSheet == [exists |-> FALSE, rows |-> <<>>]
Stored(name) == [exists |-> TRUE, rows |-> <<Headers(name)>>]
BlankSheet == [exists |-> TRUE, rows |-> <<>>]

(***************************************************************************)
(* The gspread calls the script makes.                                     *)
(***************************************************************************)
append_row(ws, values) == [ws EXCEPT !.rows = Append(@, values)]
append_rows(ws, rows) == [ws EXCEPT !.rows = @ \o rows]
\* bug: the sheet is not cleared before the frame is written
clear_noop(ws) == ws

clear(ws) == [ws EXCEPT !.rows = <<>>]
get_all_values(ws) == ws.rows
row_values(ws, r) == IF Len(ws.rows) >= r THEN ws.rows[r] ELSE <<>>

\* bug: the header is appended outside the except branch, on every call
get_or_create_worksheet_reheader(sh, name, headers) ==
    [sh EXCEPT ![name] = append_row([exists |-> TRUE, rows |-> @.rows], headers)]

\* sheet.worksheet(name), or add_worksheet + append_row(headers) when not found
get_or_create_worksheet(sh, name, headers) ==
    IF sh[name].exists THEN sh
    ELSE [sh EXCEPT ![name] = append_row(BlankSheet, headers)]

\* the five module-level calls, in script order
EnsureTabs(sh) ==
    LET s1 == get_or_create_worksheet(sh, "Expenses", Headers("Expenses"))
        s2 == get_or_create_worksheet(s1, "Medicines", Headers("Medicines"))
        s3 == get_or_create_worksheet(s2, "Investments", Headers("Investments"))
        s4 == get_or_create_worksheet(s3, "ExpenseCategories", Headers("ExpenseCategories"))
    IN  get_or_create_worksheet(s4, "InvestmentCategories", Headers("InvestmentCategories"))

(***************************************************************************)
(* DataFrames.                                                             *)
(***************************************************************************)
S(t) == [tag |-> "str", v |-> t]
N(n) == [tag |-> "num", v |-> n]

\* what the sheet shows for a value written with append_row(s)
CellText(c) == IF c.tag = "num" THEN Dec(c.v) ELSE c.v
RowText(row) == [j \in 1..Len(row) |-> CellText(row[j])]
RowsText(rows) == [i \in 1..Len(rows) |-> RowText(rows[i])]
AsRead(row) == [j \in 1..Len(row) |-> S(row[j])]

EmptyFrame == [values |-> <<>>, columns |-> <<>>]

ws_to_df(ws) ==
    LET data == get_all_values(ws)
    IN  IF data = <<>> THEN EmptyFrame
        ELSE [values |-> [i \in 1..(Len(data) - 1) |-> AsRead(data[i + 1])],
              columns |-> data[1]]

\* bug: the header row is not written back
df_to_ws_noheader(d, ws) == append_rows(clear(ws), RowsText(d.values))

df_to_ws(d, ws) ==
    append_rows(append_row(clear(ws), d.columns), RowsText(d.values))

\* df.empty: no rows or no columns
IsEmpty(d) == Len(d.values) = 0 \/ Len(d.columns) = 0

\* df[col].tolist()
Column(d, col) ==
    LET j == CHOOSE k \in 1..Len(d.columns) : d.columns[k] = col
    IN  [i \in 1..Len(d.values) |-> d.values[i][j].v]

\* df.loc[len(df)] = new_row; pandas refuses a frame that has no columns
CanSetRow(d) == Len(d.columns) > 0
\* bug: the new row is put first
SetNewRow_first(d, row) == [d EXCEPT !.values = <<row>> \o @]

\* bug: the duplicate check of the local-file variant, a row already stored is not added
SetNewRow_dedup(d, row) ==
    IF \E i \in 1..Len(d.values) : RowText(d.values[i]) = RowText(row) THEN d
    ELSE [d EXCEPT !.values = Append(@, row)]

SetNewRow(d, row) == [d EXCEPT !.values = Append(@, row)]

\* df.loc[i] = new_values (i counted from 0)
SetRow(d, i, row) == [d EXCEPT !.values[i + 1] = row]

\* bug: the index is taken as counted from 1
DropRow_fromone(d, i) ==
    [d EXCEPT !.values = SubSeq(@, 1, i - 1) \o SubSeq(@, i + 1, Len(@))]

\* df.drop(index=i).reset_index(drop=True) (i counted from 0)
DropRow(d, i) ==
    [d EXCEPT !.values = SubSeq(@, 1, i) \o SubSeq(@, i + 2, Len(@))]

(***************************************************************************)
(* Category lists.                                                         *)
(***************************************************************************)
Contains(list, x) == \E k \in 1..Len(list) : list[k] = x
OneColumn(list) == [k \in 1..Len(list) |-> <<list[k]>>]

\* bug: the header is appended whenever the list is seeded, without looking at row 1
LoadCategories_reheader(ws, col, default) ==
    LET d == ws_to_df(ws)
    IN  IF IsEmpty(d)
        THEN [ws |-> append_rows(append_row(ws, <<col>>), OneColumn(default)),
              ret |-> default]
        ELSE [ws |-> ws, ret |-> Column(d, col)]

\* the body shared by the two loaders: [ws |-> the sheet left, ret |-> the list returned]
LoadCategories(ws, col, default) ==
    LET d == ws_to_df(ws)
    IN  IF IsEmpty(d)
        THEN LET ws1 == IF row_values(ws, 1) = <<>> THEN append_row(ws, <<col>>) ELSE ws
             IN  [ws |-> append_rows(ws1, OneColumn(default)), ret |-> default]
        ELSE [ws |-> ws, ret |-> Column(d, col)]

load_expense_categories(ws) == LoadCategories(ws, T_Category, ExpenseDefault)
load_investment_categories(ws) == LoadCategories(ws, T_Type, InvestmentDefault)

(***************************************************************************)
(* What the user can enter.                                                *)
(***************************************************************************)
Dates == {[year |-> 2024, month |-> 3, day |-> 5], [year |-> 2025, month |-> 12, day |-> 31]}
EditDates == {[year |-> 2024, month |-> 7, day |-> 1]}
Amounts == {0, 25}                      \* number_input, min_value 0
Quantities == {1}                       \* number_input, min_value 1
Costs == {0}                            \* number_input, min_value 0
NoteTexts == {<<>>}
NameTexts == {<<>>, <<Sp>>, <<"A">>}
CategoryTexts == {<<Sp, Sp>>, <<"G", Sp>>, <<"O","t","h","e","r">>}

NoInput == [none |-> TRUE]
Trigger(kind, i, in) == [i |-> i, kind |-> kind, in |-> in]

\* the row the script builds from the expense form
ExpenseRow(in, category) ==
    <<S(DateStr(in.date)), N(in.amount), S(category), S(in.notes), S(MonthYear(in.date))>>
MedicineRow(in) ==
    <<S(DateStr(in.date)), S(in.name), N(in.quantity), N(in.cost), S(in.notes)>>
InvestmentRow(in, inv_type) ==
    <<S(DateStr(in.date)), S(inv_type), N(in.amount), S(in.frequency), S(in.notes)>>

(***************************************************************************)
(* The script, one run: sheets before -> sheets after.                     *)
(***************************************************************************)
\* df = ws_to_df(ws); df.loc[len(df)] = new_row; df_to_ws(df, ws)
AddRow(sh, name, row) ==
    LET d == ws_to_df(sh[name])
    IN  IF CanSetRow(d) THEN [sh EXCEPT ![name] = df_to_ws(SetNewRow(d, row), @)]
        ELSE sh   \* ValueError: the run ends here

\* in a run a button reads True only when its click triggered the run
EditClicked(t, i) == t.kind = "edit" /\ t.i = i
SaveClicked(t) == t.kind = "save"
DeleteClicked(t, i) == t.kind = "delete" /\ t.i = i

show_table_with_actions(sh, name, t) ==
    LET d == ws_to_df(sh[name])
        shown == 0..(Len(d.values) - 1)
    IN  IF IsEmpty(d) THEN sh
        ELSE IF \E i \in shown : EditClicked(t, i)
        THEN \* the edit form is drawn; its Save button is read in this same run
             IF SaveClicked(t)
             THEN [sh EXCEPT ![name] = df_to_ws(SetRow(d, t.i, t.in.values), @)]
             ELSE sh
        ELSE IF \E i \in shown : DeleteClicked(t, i)
        THEN [sh EXCEPT ![name] = df_to_ws(DropRow(d, t.i), @)]
        ELSE sh

ExpensesTab(sh, t) ==
    LET l == load_expense_categories(sh["ExpenseCategories"])
        s1 == [sh EXCEPT !["ExpenseCategories"] = l.ws]
        expense_categories == l.ret
    IN  IF t.kind = "add_category"
           /\ strip(t.in.text) # <<>> /\ ~Contains(expense_categories, t.in.text)
        THEN [s1 EXCEPT !["ExpenseCategories"] = append_row(@, <<t.in.text>>)]
        ELSE IF t.kind = "add_expense" /\ t.in.amount > 0
        THEN AddRow(s1, "Expenses", ExpenseRow(t.in, expense_categories[t.in.sel]))
        ELSE show_table_with_actions(s1, "Expenses", t)

MedicinesTab(sh, t) ==
    IF t.kind = "add_medicine" /\ strip(t.in.name) # <<>>
    THEN AddRow(sh, "Medicines", MedicineRow(t.in))
    ELSE show_table_with_actions(sh, "Medicines", t)

InvestmentsTab(sh, t) ==
    LET l == load_investment_categories(sh["InvestmentCategories"])
        s1 == [sh EXCEPT !["InvestmentCategories"] = l.ws]
        investment_categories == l.ret
    IN  IF t.kind = "add_type"
           /\ strip(t.in.text) # <<>> /\ ~Contains(investment_categories, t.in.text)
        THEN [s1 EXCEPT !["InvestmentCategories"] = append_row(@, <<t.in.text>>)]
        ELSE IF t.kind = "add_investment" /\ t.in.amount > 0
        THEN AddRow(s1, "Investments", InvestmentRow(t.in, investment_categories[t.in.sel]))
        ELSE show_table_with_actions(s1, "Investments", t)

\* download_all_data() only reads the three record sheets
Script(sh, menu, t) ==
    LET s0 == EnsureTabs(sh)
    IN  CASE menu = "Expenses" -> ExpensesTab(s0, t)
          [] menu = "Medicines" -> MedicinesTab(s0, t)
          [] menu = "Investments" -> InvestmentsTab(s0, t)

(***************************************************************************)
(* One session: every user event is one complete run of the script.        *)
(***************************************************************************)
Sessions == {1, 2}
Records(ws) == IF Len(ws.rows) = 0 THEN <<>> ELSE Tail(ws.rows)
NumRecords(ws) == IF Len(ws.rows) = 0 THEN 0 ELSE Len(ws.rows) - 1
TotalRecords(sh) ==
    NumRecords(sh["Expenses"]) + NumRecords(sh["Medicines"]) + NumRecords(sh["Investments"])
Entries(ws) == [k \in 1..NumRecords(ws) |-> ws.rows[k + 1][1]]

Run(menu, t) ==
    /\ sheets' = Script(sheets, menu, t)
    /\ page' = menu
    /\ ev' = t
    /\ UNCHANGED <<pc, op, snap, df, runs, mixed>>

\* first load, reload, or a change of the sidebar radio
Rerun(menu) == Run(menu, Trigger("rerun", -1, NoInput))

AddCategory(text) ==
    /\ page = "Expenses"
    /\ Run(page, Trigger("add_category", -1, [text |-> text]))

AddInvestmentType(text) ==
    /\ page = "Investments"
    /\ Run(page, Trigger("add_type", -1, [text |-> text]))

AddExpense(date, amount, notes) ==
    /\ page = "Expenses"
    /\ TotalRecords(sheets) < MaxRecords
    /\ \E sel \in {NumRecords(sheets["ExpenseCategories"])} :
          Run(page, Trigger("add_expense", -1,
                  [date |-> date, amount |-> amount, notes |-> notes, sel |-> sel]))

AddMedicine(date, name, quantity, cost, notes) ==
    /\ page = "Medicines"
    /\ TotalRecords(sheets) < MaxRecords
    /\ Run(page, Trigger("add_medicine", -1,
               [name |-> name, date |-> date, notes |-> notes,
                quantity |-> quantity, cost |-> cost]))

AddInvestment(date, amount, frequency, notes) ==
    /\ page = "Investments"
    /\ TotalRecords(sheets) < MaxRecords
    /\ \E sel \in {NumRecords(sheets["InvestmentCategories"])} :
          Run(page, Trigger("add_investment", -1,
                  [date |-> date, amount |-> amount, notes |-> notes,
                   frequency |-> frequency, sel |-> sel]))

ClickEdit(i) ==
    /\ page \in RecordSheets
    /\ i < NumRecords(sheets[page])
    /\ Run(page, Trigger("edit", i, NoInput))

\* the edit form is in the browser only after the run that a click on Edit caused
SaveEdit(date) ==
    /\ ev.kind = "edit"
    /\ LET old == sheets[page].rows[ev.i + 2]
           \* st.text_input(col_name, str(value)): the Date retyped, the rest left as shown
           new_values == [j \in 1..Len(old) |-> IF j = 1 THEN S(DateStr(date)) ELSE S(old[j])]
       IN  Run(page, Trigger("save", ev.i, [values |-> new_values]))

ClickDelete(i) ==
    /\ page \in RecordSheets
    /\ i < NumRecords(sheets[page])
    /\ Run(page, Trigger("delete", i, NoInput))

Idle == [s \in Sessions |-> "idle"]
NoFrames == [s \in Sessions |-> EmptyFrame]
NoRows == [s \in Sessions |-> <<>>]

Init ==
    /\ sheets \in [SheetNames -> {NoSheet, BlankSheet}]
    /\ \A n \in RecordSheets : sheets[n] = NoSheet
    /\ page = "none"
    /\ ev = Trigger("start", -1, NoInput)
    /\ pc = Idle
    /\ op = [s \in Sessions |-> Trigger("start", -1, NoInput)]
    /\ snap = NoRows
    /\ df = NoFrames
    /\ runs = [s \in Sessions |-> 0]
    /\ mixed = [s \in Sessions |-> FALSE]

Next ==
    \/ \E menu \in RecordSheets : Rerun(menu)
    \/ \E text \in CategoryTexts : AddCategory(text)
    \/ \E text \in CategoryTexts : AddInvestmentType(text)
    \/ \E date \in Dates, amount \in Amounts, notes \in NoteTexts : AddExpense(date, amount, notes)
    \/ \E date \in Dates, name \in NameTexts, quantity \in Quantities, cost \in Costs,
          notes \in NoteTexts : AddMedicine(date, name, quantity, cost, notes)
    \/ \E date \in Dates, amount \in Amounts, notes \in NoteTexts :
          AddInvestment(date, amount, Frequencies[1], notes)
    \/ \E i \in 0..(MaxRecords - 1) : ClickEdit(i)
    \/ \E date \in EditDates : SaveEdit(date)
    \/ \E i \in 0..(MaxRecords - 1) : ClickDelete(i)

Spec == Init /\ [][Next]_vars

(***************************************************************************)
(* Sessions on the Expenses tab, one API call at a time.  A run reads the  *)
(* sheet (ws_to_df), changes its own frame, and df_to_ws then makes three  *)
(* calls: clear, append_row(header), append_rows(rows).  Nothing orders    *)
(* the calls of two sessions, and a run can stop between two calls.        *)
(***************************************************************************)
Resting == {"written", "idle", "failed", "stopped_after_clear", "stopped_after_header"}
Stopped == {"stopped_after_clear", "stopped_after_header"}
Writing == {"cleared", "headered"}

\* the run up to the first write: the five worksheets are there and the category list
\* is seeded, so only the read of Expenses matters
StartRun(s, t, frame, to) ==
    /\ pc[s] \in Resting
    /\ runs[1] + runs[2] < MaxRuns
    /\ runs' = [runs EXCEPT ![s] = @ + 1]
    /\ op' = [op EXCEPT ![s] = t]
    /\ snap' = [snap EXCEPT ![s] = Records(sheets["Expenses"])]
    /\ df' = [df EXCEPT ![s] = frame]
    /\ pc' = [pc EXCEPT ![s] = to]
    /\ mixed' = [mixed EXCEPT ![s] = FALSE]
    /\ UNCHANGED <<sheets, page, ev>>

\* lines 187-191: submit and amount > 0, read, df.loc[len(df)] = new_row
BeginAdd(s, date, notes) ==
    LET in == [date |-> date, amount |-> 25, notes |-> notes,
               sel |-> NumRecords(sheets["ExpenseCategories"])]
        t == Trigger("add_expense", -1, in)
        categories == load_expense_categories(sheets["ExpenseCategories"]).ret
        d == ws_to_df(EnsureTabs(sheets)["Expenses"])
    IN  /\ NumRecords(sheets["Expenses"]) < MaxRecords
        /\ IF CanSetRow(d)
           THEN StartRun(s, t, SetNewRow(d, ExpenseRow(in, categories[in.sel])), "ready")
           ELSE StartRun(s, t, d, "failed")

\* lines 197, 143-144: read, the Delete button of row i reads True, drop
BeginDelete(s, i) ==
    LET d == ws_to_df(EnsureTabs(sheets)["Expenses"])
    IN  /\ ~IsEmpty(d)
        /\ i < Len(d.values)
        /\ StartRun(s, Trigger("delete", i, NoInput), DropRow(d, i), "ready")

WriteCall(s, from, to, ws) ==
    /\ pc[s] = from
    /\ pc' = [pc EXCEPT ![s] = to]
    /\ sheets' = [sheets EXCEPT !["Expenses"] = ws]
    /\ mixed' = [o \in Sessions |-> mixed[o] \/ (o # s /\ pc[o] \in Writing)]
    /\ UNCHANGED <<page, ev, op, snap, df, runs>>

\* line 74
Clear(s) == WriteCall(s, "ready", "cleared", clear(sheets["Expenses"]))
\* line 75
WriteHeader(s) == WriteCall(s, "cleared", "headered", append_row(sheets["Expenses"], df[s].columns))
\* line 76
WriteRows(s) ==
    WriteCall(s, "headered", "written", append_rows(sheets["Expenses"], RowsText(df[s].values)))

\* the process stops (an API error, a kill) between two calls of df_to_ws
Stop(s) ==
    /\ pc[s] \in Writing
    /\ pc' = [pc EXCEPT ![s] = IF pc[s] = "cleared" THEN "stopped_after_clear"
                                ELSE "stopped_after_header"]
    /\ UNCHANGED <<sheets, page, ev, op, snap, df, runs, mixed>>

\* the sheets as the single-session program leaves them, Expenses holding 0, 1 or 2 records
SomeRows ==
    LET in(d) == [date |-> d, amount |-> 25, notes |-> <<>>]
        r1 == RowText(ExpenseRow(in([year |-> 2024, month |-> 3, day |-> 5]), ExpenseDefault[6]))
        r2 == RowText(ExpenseRow(in([year |-> 2025, month |-> 12, day |-> 31]), ExpenseDefault[1]))
    IN  {<<>>, <<r1>>, <<r1, r2>>}

InitSessions ==
    /\ \E rows \in SomeRows :
          sheets = [name \in SheetNames |->
                      CASE name = "Expenses" -> append_rows(Stored(name), rows)
                        [] name = "ExpenseCategories" ->
                              load_expense_categories(Stored(name)).ws
                        [] name = "InvestmentCategories" ->
                              load_investment_categories(Stored(name)).ws
                        [] OTHER -> Stored(name)]
    /\ page = "Expenses"
    /\ ev = Trigger("rerun", -1, NoInput)
    /\ pc = Idle
    /\ op = [s \in Sessions |-> Trigger("start", -1, NoInput)]
    /\ snap = NoRows
    /\ df = NoFrames
    /\ runs = [s \in Sessions |-> 0]
    /\ mixed = [s \in Sessions |-> FALSE]

\* the date picked in the expense form by the concurrent sessions
SessionDates == {[year |-> 2024, month |-> 7, day |-> 1]}

\* what each session types into the Notes field of the expense form
TypedBy(s) == IF s = 1 THEN <<"a">> ELSE <<"b">>

NextSessions ==
    \E s \in Sessions :
        \/ \E date \in SessionDates : BeginAdd(s, date, TypedBy(s))
        \/ \E i \in 0..(MaxRecords - 1) : BeginDelete(s, i)
        \/ Clear(s)
        \/ WriteHeader(s)
        \/ WriteRows(s)

SpecSessions == InitSessions /\ [][NextSessions]_vars

NextStop ==
    \/ \E date \in SessionDates : BeginAdd(1, date, TypedBy(1))
    \/ \E i \in 0..(MaxRecords - 1) : BeginDelete(1, i)
    \/ Clear(1)
    \/ WriteHeader(1)
    \/ WriteRows(1)
    \/ Stop(1)

SpecStop == InitSessions /\ [][NextStop]_vars

(***************************************************************************)
(* Properties of the single-session program (Spec).                        *)
(***************************************************************************)
WithoutAt(seq, i) == [k \in 1..(Len(seq) - 1) |-> IF k <= i THEN seq[k] ELSE seq[k + 1]]
AllSpaces(t) == \A k \in 1..Len(t) : t[k] = Sp
OthersKept(name) == \A m \in RecordSheets \ {name} : sheets'[m] = sheets[m]

\* a run triggered by t appends a valid record to sheet name
IsValidAdd(t, name) ==
    \/ name = "Expenses" /\ t.kind = "add_expense" /\ t.in.amount > 0
    \/ name = "Medicines" /\ t.kind = "add_medicine" /\ ~AllSpaces(t.in.name)
    \/ name = "Investments" /\ t.kind = "add_investment" /\ t.in.amount > 0

\* that record, as the sheet shows it
AddedText(t, name, sh) ==
    CASE name = "Expenses" ->
            <<DateStr(t.in.date), Dec(t.in.amount), Entries(sh["ExpenseCategories"])[t.in.sel],
              t.in.notes, MonthYear(t.in.date)>>
      [] name = "Medicines" ->
            <<DateStr(t.in.date), t.in.name, Dec(t.in.quantity), Dec(t.in.cost), t.in.notes>>
      [] name = "Investments" ->
            <<DateStr(t.in.date), Entries(sh["InvestmentCategories"])[t.in.sel],
              Dec(t.in.amount), t.in.frequency, t.in.notes>>

\* C1: appending a valid record r to a collection of n records leaves n+1 records,
\* the first n as before and in their order, the last one r (as the sheet shows it,
\* numbers as decimal text), also when an equal record is already stored.
C1_AppendAtEnd ==
    [][\A name \in RecordSheets :
          IsValidAdd(ev', name) =>
             /\ sheets'[name].rows =
                   <<Headers(name)>> \o Append(Records(sheets[name]), AddedText(ev', name, sheets))
             /\ OthersKept(name)]_vars

\* a third expense, equal to the first one stored, was appended after a different one
C1_Witness ==
    /\ IsValidAdd(ev, "Expenses")
    /\ NumRecords(sheets["Expenses"]) = 3
    /\ sheets["Expenses"].rows[4] = AddedText(ev, "Expenses", sheets)
    /\ sheets["Expenses"].rows[4] = sheets["Expenses"].rows[2]
    /\ sheets["Expenses"].rows[3] # sheets["Expenses"].rows[2]

\* C3: Delete on row i (0 <= i < n) of a collection of n >= 1 records leaves exactly
\* the n-1 other records in their order, under the unchanged header.
C3_DeleteAtPosition ==
    [][(ev'.kind = "delete" /\ page \in RecordSheets
          /\ ev'.i >= 0 /\ ev'.i < NumRecords(sheets[page])) =>
             /\ page' = page
             /\ sheets'[page].rows = <<Headers(page)>> \o WithoutAt(Records(sheets[page]), ev'.i)
             /\ OthersKept(page)]_vars

\* the middle one of three different expenses was deleted
C3_Witness ==
    /\ ev.kind = "delete" /\ ev.i = 1
    /\ page = "Expenses"
    /\ NumRecords(sheets[page]) = 2
    /\ sheets[page].rows[2] # sheets[page].rows[3]

RoundTrip(name, d) ==
    LET written == df_to_ws(d, sheets[name])
        back == ws_to_df(written)
    IN  /\ back.columns = Headers(name)
        /\ Len(back.values) = Len(d.values)
        /\ \A i \in 1..Len(d.values) : back.values[i] = AsRead(RowText(d.values[i]))
        /\ written.rows[1] = Headers(name)
        /\ Len(written.rows) = Len(d.values) + 1

\* a new row of each collection, numbers in it
SampleRow(name) ==
    LET date == [year |-> 2024, month |-> 3, day |-> 5]
    IN  CASE name = "Expenses" ->
               ExpenseRow([date |-> date, amount |-> 25, notes |-> <<"n">>], ExpenseDefault[1])
          [] name = "Medicines" ->
               MedicineRow([name |-> <<"A">>, date |-> date, notes |-> <<"n">>,
                            quantity |-> 1, cost |-> 0])
          [] name = "Investments" ->
               InvestmentRow([date |-> date, amount |-> 25, notes |-> <<"n">>,
                              frequency |-> Frequencies[2]], InvestmentDefault[1])

\* C6: for each record collection, df_to_ws followed by ws_to_df gives back the same
\* number of records with the same field values (as cell text) in the same order under
\* the declared header, for the frame just read and for that frame with a new row;
\* with no records the frame read back is empty and still has the declared columns:
\* the header row is neither lost nor doubled.
C6_RoundTrip ==
    \A name \in RecordSheets :
        sheets[name].exists =>
            LET d == ws_to_df(sheets[name])
            IN  /\ RoundTrip(name, d)
                /\ RoundTrip(name, SetNewRow(d, SampleRow(name)))
                /\ d = [values |-> [i \in 1..NumRecords(sheets[name]) |->
                                       AsRead(sheets[name].rows[i + 1])],
                        columns |-> Headers(name)]

\* Medicines was rewritten with no record left, Expenses with two
C6_Witness ==
    /\ ev.kind = "delete" /\ page = "Medicines"
    /\ sheets["Medicines"] = Stored("Medicines")
    /\ ws_to_df(sheets["Medicines"]) = [values |-> <<>>, columns |-> Headers("Medicines")]
    /\ NumRecords(sheets["Expenses"]) = 2

EnsureIdempotent ==
    /\ \A name \in SheetNames :
          LET after == get_or_create_worksheet(sheets, name, Headers(name))
          IN  /\ sheets[name].exists => after = sheets
              /\ ~sheets[name].exists => after = [sheets EXCEPT ![name] = Stored(name)]
    /\ EnsureTabs(EnsureTabs(sheets)) = EnsureTabs(sheets)
    /\ (\A name \in SheetNames : sheets[name].exists) => EnsureTabs(sheets) = sheets

\* C7: get_or_create_worksheet creates an absent collection holding only its header
\* and changes nothing when the collection exists; the five calls of a run change
\* nothing once all exist, and a rerun of the script leaves every record sheet as stored.
C7_EnsureIsIdempotent ==
    /\ []EnsureIdempotent
    /\ [][ev'.kind = "rerun" =>
             \A name \in RecordSheets :
                 sheets'[name] = IF sheets[name].exists THEN sheets[name] ELSE Stored(name)]_vars

\* a rerun with records stored
C7_Witness ==
    /\ ev.kind = "rerun"
    /\ \A name \in SheetNames : sheets[name].exists
    /\ NumRecords(sheets["Expenses"]) = 1
    /\ NumRecords(sheets["Investments"]) = 1

LoadSeedsOnce(ws, col, default) ==
    LET first == LoadCategories(ws, col, default)
        again == LoadCategories(first.ws, col, default)
    IN  /\ NumRecords(ws) = 0 =>
              /\ first.ret = default
              /\ Len(default) = 6
              /\ first.ws = [exists |-> TRUE, rows |-> <<(<<col>>)>> \o OneColumn(default)]
        /\ NumRecords(ws) > 0 => first.ret = Entries(ws) /\ first.ws = ws
        /\ again.ws = first.ws
        /\ again.ret = first.ret
        /\ Entries(first.ws) = first.ret

\* after a run of the tab: the defaults, once, then what the user added
SeededOnce(ws, default) ==
    /\ NumRecords(ws) >= Len(default)
    /\ SubSeq(Entries(ws), 1, Len(default)) = default
    /\ \A j \in (Len(default) + 1)..NumRecords(ws) :
          \A i \in 1..Len(default) : Entries(ws)[j] # default[i]

\* C4: load(kind) on a category collection without entries (blank, or header only)
\* returns the six defaults in order and leaves exactly them under the header; a load
\* of a collection with entries returns them and writes nothing, so a second load
\* after any load changes nothing, and the defaults are stored once.
C4_LoadSeedsOnce ==
    /\ sheets["ExpenseCategories"].exists =>
          /\ LoadSeedsOnce(sheets["ExpenseCategories"], T_Category, ExpenseDefault)
          /\ load_expense_categories(sheets["ExpenseCategories"])
                = LoadCategories(sheets["ExpenseCategories"], T_Category, ExpenseDefault)
    /\ sheets["InvestmentCategories"].exists =>
          /\ LoadSeedsOnce(sheets["InvestmentCategories"], T_Type, InvestmentDefault)
          /\ load_investment_categories(sheets["InvestmentCategories"])
                = LoadCategories(sheets["InvestmentCategories"], T_Type, InvestmentDefault)
    /\ page = "Expenses" => SeededOnce(sheets["ExpenseCategories"], ExpenseDefault)
    /\ page = "Investments" => SeededOnce(sheets["InvestmentCategories"], InvestmentDefault)

\* the investment types were seeded by a run of their tab, the expense categories not yet
C4_Witness ==
    /\ page = "Investments" /\ ev.kind = "rerun"
    /\ sheets["InvestmentCategories"].rows = <<(<<T_Type>>)>> \o OneColumn(InvestmentDefault)
    /\ sheets["ExpenseCategories"] = Stored("ExpenseCategories")

AddsExactlyWhenNew(kind, name) ==
    ev'.kind = kind =>
       LET loaded == Entries(sheets[name])
           value == ev'.in.text
       IN  IF ~AllSpaces(value) /\ ~(\E k \in 1..Len(loaded) : loaded[k] = value)
           THEN sheets'[name].rows = Append(sheets[name].rows, <<value>>)
           ELSE sheets'[name] = sheets[name]

\* C5: add(kind, value) appends value at the end of the category collection exactly
\* when value is not blank after trimming and is no entry of the loaded list (exact
\* match); otherwise the collection is left as it is.  Entries are never removed or
\* reordered.
C5_AddCategory ==
    [][/\ AddsExactlyWhenNew("add_category", "ExpenseCategories")
       /\ AddsExactlyWhenNew("add_type", "InvestmentCategories")
       /\ \A name \in CategorySheets :
             NumRecords(sheets[name]) > 0 =>
                SubSeq(sheets'[name].rows, 1, Len(sheets[name].rows)) = sheets[name].rows]_vars

\* a new investment type, stored as typed, after the defaults
C5_Witness ==
    /\ ev.kind = "add_type" /\ ev.in.text = <<"G", Sp>>
    /\ Entries(sheets["InvestmentCategories"]) = Append(InvestmentDefault, <<"G", Sp>>)

(***************************************************************************)
(* The edit form.                                                          *)
(***************************************************************************)
DateOfText(t) == CHOOSE d \in Dates \cup EditDates : DateStr(d) = t
MonthFollowsDate(row) == row[5] = MonthYear(DateOfText(row[1]))

\* holds of the code: Month is written by the expense form alone, from the date
MonthInvariant ==
    \A k \in 1..NumRecords(sheets["Expenses"]) :
        /\ \E d \in Dates \cup EditDates : DateStr(d) = sheets["Expenses"].rows[k + 1][1]
        /\ MonthFollowsDate(sheets["Expenses"].rows[k + 1])

\* C2: the Month of every stored expense is the "month name + year" form of its Date;
\* an edit that changes Date and leaves Month as shown stores the new Date with the
\* Month recomputed from it.
C2_MonthRecomputedOnEdit ==
    /\ []MonthInvariant
    /\ [][(ev'.kind = "save" /\ page = "Expenses") =>
             LET row == sheets'["Expenses"].rows[ev'.i + 2]
             IN  /\ row[1] = ev'.in.values[1].v
                 /\ MonthFollowsDate(row)]_vars

\* C8: Edit on row i, then Save with new values: afterwards the collection has the
\* new values at position i, every other record as before, same length and order.
C8_EditPersists ==
    [][(ev.kind = "edit" /\ ev'.kind = "save") =>
          /\ Len(sheets'[page].rows) = Len(sheets[page].rows)
          /\ \A k \in 1..NumRecords(sheets[page]) :
                sheets'[page].rows[k + 1] =
                   IF k = ev'.i + 1 THEN RowText(ev'.in.values) ELSE sheets[page].rows[k + 1]]_vars

(***************************************************************************)
(* Properties of sessions that interleave (SpecSessions) or stop (SpecStop).*)
(***************************************************************************)
Grid == sheets["Expenses"].rows

\* the records a session means to leave: what it read, with its own change
OwnCopy(s) ==
    IF op[s].kind = "add_expense"
    THEN Append(snap[s], AddedText(op[s], "Expenses", sheets))
    ELSE WithoutAt(snap[s], op[s].i)

\* C9: sessions are not isolated.  Whenever a session ends a rewrite that no call of
\* another session fell into, the collection is that session's snapshot (the first row
\* it read, taken as the header, and the records under it) with its own change,
\* whatever was written since it read; so when two sessions read the same contents
\* and write one after the other, the first change is lost (C9_LostUpdate).
C9_LastWriterWins ==
    [][\A s \in Sessions :
          (pc[s] = "headered" /\ pc'[s] = "written" /\ ~mixed[s]) =>
              sheets'["Expenses"].rows = <<df[s].columns>> \o OwnCopy(s)]_vars

\* both sessions read the same record, both added one, session 1 wrote first:
\* the collection is session 2's copy and session 1's record is nowhere in it
C9_LostUpdate ==
    /\ pc[1] = "written" /\ pc[2] = "written"
    /\ op[1].kind = "add_expense" /\ op[2].kind = "add_expense"
    /\ snap[1] = snap[2] /\ Len(snap[1]) = 1
    /\ ~mixed[1] /\ ~mixed[2]
    /\ Grid = <<Headers("Expenses")>> \o OwnCopy(2)
    /\ \A k \in 1..Len(Grid) : Grid[k] # AddedText(op[1], "Expenses", sheets)

\* C10 as stated: df_to_ws stopped after clear, or after clear and the header, leaves
\* a collection that is neither the one stored before the write nor the intended one.
C10_AnyPrefixTruncates ==
    pc[1] \in Stopped =>
        /\ Grid # <<Headers("Expenses")>> \o snap[1]
        /\ Grid # <<Headers("Expenses")>> \o RowsText(df[1].values)

TruncatedAfterStop ==
    pc[1] \in Stopped =>
        /\ Grid = IF pc[1] = "stopped_after_clear" THEN <<>> ELSE <<Headers("Expenses")>>
        /\ snap[1] # <<>> => Records(sheets["Expenses"]) # snap[1]
        /\ df[1].values # <<>> => Grid # <<Headers("Expenses")>> \o RowsText(df[1].values)
        /\ IsEmpty(ws_to_df(EnsureTabs(sheets)["Expenses"]))

\* C10, amended: stopped after clear the sheet is blank, stopped after the header it
\* holds the header alone; in both cases no record is left, so the records stored
\* before (if any) are gone and the intended ones (if any) are not there.  Nothing
\* repairs it: the next run changes nothing before it reads, reads no record, and on
\* the blank sheet cannot add one.
C10_StopLeavesNoRecords ==
    /\ []TruncatedAfterStop
    /\ [][(pc[1] \in Stopped /\ pc'[1] # pc[1]) =>
             /\ sheets' = sheets
             /\ snap'[1] = <<>>
             /\ (pc[1] = "stopped_after_clear" /\ op'[1].kind = "add_expense")
                   => pc'[1] = "failed"]_vars

\* an add to a collection of two records stopped after the header was written
C10_Witness ==
    /\ pc[1] = "stopped_after_header"
    /\ Len(snap[1]) = 2
    /\ op[1].kind = "add_expense"
    /\ Grid = <<Headers("Expenses")>>

====
